---- MODULE Spec2Model ----
(***************************************************************************)
(* Model of the caching HTTP proxy of src/proxyserver.py.                  *)
(*                                                                         *)
(* Strings and byte strings are sequences of one-character strings, so     *)
(* that startswith, split, replace and upper are computed, not assumed.    *)
(* A request is the decoded client input as a sequence of lines, each line *)
(* a sequence of whitespace-separated tokens.  The cache directory is a    *)
(* function from file names to file contents.  The origin is the           *)
(* environment: it refuses the connection, stays silent, closes without    *)
(* data, or delivers its response as a sequence of reads.                  *)
(***************************************************************************)
EXTENDS Integers, Sequences, FiniteSets, TLC

\* ------------------------------------------------------------------ bounds
MaxSessions == 2     \* connections accepted in one run of the model
MaxUrlLen   == 1     \* characters of a URL after its scheme prefix
MaxReads    == 2     \* reads in which an origin delivers its response
MaxParseLen == 3     \* characters after the scheme of a URL given to the parser

\* ------------------------------------------------------- program constants
ORIGIN_BUFSIZE == 4096   \* server_sock.recv(4096)
BACKLOG        == 5      \* proxy_sock.listen(5)

\* Python's None, for a string, for a request or message, for an address
None      == <<"None">>
NoRequest == << << <<"None">> >> >>
NoAddr    == <<None, 0>>

\* ------------------------------------------------------ string primitives
Str(n, chars) == UNION {[1..k -> chars] : k \in 0..n}

\* equality where a prefix test is meant
startswith_exact(s, p) == s = p

startswith(s, p) == Len(s) >= Len(p) /\ SubSeq(s, 1, Len(p)) = p

lstrip_prefix(s, p) == SubSeq(s, Len(p) + 1, Len(s))

\* only the first occurrence replaced
replace_first(s, old, new) ==
    [i \in 1..Len(s) |->
        IF s[i] = old /\ \A j \in 1..(i - 1) : s[j] # old THEN new ELSE s[i]]

replace(s, old, new) == [i \in 1..Len(s) |-> IF s[i] = old THEN new ELSE s[i]]

find(s, c) ==
    IF \E i \in 1..Len(s) : s[i] = c
    THEN CHOOSE i \in 1..Len(s) : s[i] = c /\ \A j \in 1..(i - 1) : s[j] # c
    ELSE 0

\* str.split(c, 1): at most one split, at the first occurrence of c
split1(s, c) ==
    IF find(s, c) = 0 THEN <<s>>
    ELSE <<SubSeq(s, 1, find(s, c) - 1), SubSeq(s, find(s, c) + 1, Len(s))>>

upper_char(c) ==
    CASE c = "g" -> "G"
      [] c = "e" -> "E"
      [] c = "t" -> "T"
      [] c = "p" -> "P"
      [] c = "o" -> "O"
      [] c = "s" -> "S"
      [] OTHER   -> c

\* the method compared as received, without case normalisation
upper_identity(s) == s

upper(s) == [i \in 1..Len(s) |-> upper_char(s[i])]

take(s, n) == IF Len(s) <= n THEN s ELSE SubSeq(s, 1, n)

RECURSIVE concat(_)
concat(ss) == IF ss = <<>> THEN <<>> ELSE Head(ss) \o concat(Tail(ss))

\* ------------------------------------------------------------- the inputs
HTTP_PREFIX  == <<"h", "t", "t", "p", ":", "/", "/">>
HTTPS_PREFIX == <<"h", "t", "t", "p", "s", ":", "/", "/">>

GET_UPPER == <<"G", "E", "T">>
GET_LOWER == <<"g", "e", "t">>
GET_MIXED == <<"G", "e", "t">>
POST      == <<"P", "O", "S", "T">>
CONNECT   == <<"C", "O", "N", "N", "E", "C", "T">>
HEAD      == <<"H", "E", "A", "D">>
VERSION   == <<"HTTP/1.1">>

\* the header line sent by curl -H 'Cache-Control: no-cache'
NO_CACHE_HEADER == << <<"Cache-Control:">>, <<"no-cache">> >>

UrlChars == {"a", "/", "_"}
Schemes  == {<<>>, HTTP_PREFIX, HTTPS_PREFIX}

\* a URL is a token of the request line, so it is never empty
Urls == {sch \o rest : sch \in Schemes, rest \in Str(MaxUrlLen, UrlChars)} \ {<<>>}

SampleUrls == {HTTP_PREFIX \o <<"a">>, HTTPS_PREFIX \o <<"a">>, <<"/", "a">>}

OtherCaseGets == {GET_LOWER, GET_MIXED}
OtherMethods  == {POST, CONNECT, HEAD}

\* what recv(4096) can hand to handle_client: nothing, an empty first line,
\* a one-token line, request lines of two or three tokens, and a request
\* with a header line
Requests ==
    {<<>>, << <<>> >>, << <<GET_UPPER>> >>}
      \cup {<< <<GET_UPPER, u, VERSION>> >> : u \in Urls}
      \cup {<< <<m, u, VERSION>> >> : m \in OtherCaseGets \cup OtherMethods,
                                      u \in SampleUrls}
      \cup {<< <<GET_UPPER, HTTP_PREFIX \o <<"a">> >> >>}
      \cup {<< <<GET_UPPER, HTTP_PREFIX \o <<"a">>, VERSION>>, NO_CACHE_HEADER >>}

\* URLs for the parser alone: dots, a port and repeated separators
ParseChars == {"a", "/", "_", ".", ":", "8"}

ParseUrls ==
    {sch \o rest : sch \in Schemes, rest \in Str(MaxParseLen, ParseChars)} \ {<<>>}

ParseRequests ==
    {<< <<GET_UPPER, u, VERSION>> >> : u \in ParseUrls}
      \cup {<< <<GET_LOWER, u, VERSION>>, NO_CACHE_HEADER >> : u \in ParseUrls}

\* the cache before the parsed session: empty, or holding the response to
\* an earlier GET http://a
ParseCaches == {<<>>, [k \in {<<"a">>} |-> <<"x">>]}

\* what the origin delivers before it closes: nothing, or a first read
\* followed by further reads
Bytes == {"x", "y"}
Responses ==
    {<<>>} \cup {<< <<b>> >> \o [i \in 1..k |-> <<"z">>] :
                    b \in Bytes, k \in 0..(MaxReads - 1)}

\* ---------------------------------------------------------------- the state
VARIABLES
    pc,             \* "accept" | "recv_client" | "connecting" | "recv_origin"
    cache,          \* files of CACHE_DIR: file name -> content
    flaky,          \* the storage may raise I/O errors
    waiting,        \* clients connected to the listener and not yet accepted
    nSessions,      \* connections accepted so far
    request_data, method, target_url, url, hostname, path, cache_key,
    cached_data, response_data, forward_msg,
    clientOpen, originOpen,
    sent,           \* bytes written to the client socket in this session
    connects,       \* server_sock.connect calls of this session
    lookups,        \* get_cached_content calls of this session
    stores,         \* cache_content calls of this session
    outcome,        \* the exit path taken by the session
    reported,       \* an [ERROR] line was printed in this session
    origin_stream,  \* reads the origin has still to deliver
    origin_silent,  \* the origin accepted and never sends
    origin_sent,    \* every read the origin delivers on this connection
    origin_addr,    \* the address given to server_sock.connect
    cache0,         \* the cache when the session was accepted
    first_response  \* url -> bytes relayed by its first fetched session

parsed  == <<method, target_url, url, hostname, path, cache_key>>
origin  == <<origin_stream, origin_silent, origin_sent, origin_addr>>
session == <<request_data, parsed, cached_data, response_data, forward_msg,
             clientOpen, originOpen, sent, connects, lookups, stores,
             outcome, reported, origin, cache0>>
vars    == <<pc, cache, flaky, waiting, nSessions, session, first_response>>

\* ------------------------------------------------------------ the parser
\* handle_client, from the request line to the cache key
ParseRequest(rd) ==
    LET blank == [err |-> "", method |-> None, target_url |-> None, url |-> None,
                  hostname |-> None, path |-> None, cache_key |-> None]
    IN
    IF rd = <<>> THEN [blank EXCEPT !.err = "empty_request"]
    ELSE IF Len(rd) < 1 \/ rd[1] = <<>>
    THEN [blank EXCEPT !.err = "no_request_line"]
    ELSE LET request_line == rd[1] IN
    IF Len(request_line) < 2
    THEN [blank EXCEPT !.err = "invalid_request_line"]
    ELSE LET m == upper(request_line[1])
             u == request_line[2]
             got == [blank EXCEPT !.method = m, !.target_url = u, !.url = u]
         IN
    IF m # GET_UPPER THEN [got EXCEPT !.err = "unsupported_method"]
    ELSE IF startswith(u, HTTPS_PREFIX) THEN [got EXCEPT !.err = "https"]
    ELSE IF startswith(u, <<"/">>) THEN [got EXCEPT !.err = "relative_url"]
    ELSE LET stripped == IF startswith(u, HTTP_PREFIX)
                         THEN lstrip_prefix(u, HTTP_PREFIX) ELSE u
             parts == split1(stripped, "/")
         IN [err        |-> "none",
             method     |-> m,
             target_url |-> u,
             url        |-> stripped,
             hostname   |-> parts[1],
             path       |-> IF Len(parts) > 1 THEN <<"/">> \o parts[2] ELSE <<"/">>,
             cache_key  |-> replace(stripped, "/", "_")]

\* ------------------------------------------------------------- the cache
\* os.path.join(CACHE_DIR, key) names the directory itself or its parent
is_dir(key) == key \in {<<>>, <<".">>, <<".", ".">>}

isfile(c, key) == key \in DOMAIN c /\ ~is_dir(key)

\* every lookup misses
get_cached_content_miss(c, key) == None

get_cached_content(c, key) == IF isfile(c, key) THEN c[key] ELSE None

cache_content_raises(key, fault) == is_dir(key) \/ fault

\* the file is never written
cache_content_lost(c, key, content) == c

cache_content(c, key, content) ==
    [k \in DOMAIN c \cup {key} |-> IF k = key THEN content ELSE c[k]]

\* the emptiness test left out
is_empty_never(data) == FALSE

\* truth value of "not response_data"
is_empty(data) == data = <<>>

\* the hit branch never taken
truthy_never(data) == FALSE

\* truth value of "if cached_data:"
truthy(data) == data # None /\ data # <<>>

ForwardMsg(p, h) ==
    << <<GET_UPPER, p, <<"HTTP/1.0">> >>,
       << <<"Host:">>, h >>,
       << <<"User-Agent:">>, <<"CSE310-Proxy">> >>,
       << <<"Accept:">>, <<"*/*">> >>,
       << <<"Accept-Encoding:">>, <<"identity">> >>,
       << <<"Connection:">>, <<"close">> >> >>

Faults == IF flaky THEN BOOLEAN ELSE {FALSE}

\* ------------------------------------------------------------------ Init
BlankSession ==
    /\ request_data = NoRequest /\ method = None /\ target_url = None /\ url = None
    /\ hostname = None /\ path = None /\ cache_key = None
    /\ cached_data = None /\ response_data = None /\ forward_msg = NoRequest
    /\ clientOpen = FALSE /\ originOpen = FALSE
    /\ sent = <<>> /\ connects = 0 /\ lookups = 0 /\ stores = 0
    /\ outcome = "none" /\ reported = FALSE
    /\ origin_stream = <<>> /\ origin_silent = FALSE /\ origin_sent = <<>>
    /\ origin_addr = NoAddr

InitCommon ==
    /\ pc = "accept"
    /\ cache = <<>>
    /\ waiting = 0
    /\ nSessions = 0
    /\ BlankSession
    /\ cache0 = <<>>
    /\ first_response = <<>>

Init == InitCommon /\ flaky = FALSE

InitFaults == InitCommon /\ flaky \in BOOLEAN

\* --------------------------------------------------------------- actions
\* each connection accepted at once, as by a thread per connection
accept_threaded ==
    /\ nSessions < MaxSessions
    /\ waiting' = IF waiting > 0 THEN waiting - 1 ELSE 0
    /\ nSessions' = nSessions + 1
    /\ pc' = "recv_client"
    /\ request_data' = NoRequest /\ method' = None /\ target_url' = None /\ url' = None
    /\ hostname' = None /\ path' = None /\ cache_key' = None
    /\ cached_data' = None /\ response_data' = None /\ forward_msg' = NoRequest
    /\ clientOpen' = TRUE /\ originOpen' = FALSE
    /\ sent' = <<>> /\ connects' = 0 /\ lookups' = 0 /\ stores' = 0
    /\ outcome' = "none" /\ reported' = FALSE
    /\ origin_stream' = <<>> /\ origin_silent' = FALSE /\ origin_sent' = <<>>
    /\ origin_addr' = NoAddr
    /\ cache0' = cache
    /\ UNCHANGED <<cache, flaky, first_response>>

\* start_proxy_server: accept one connection and call handle_client
accept ==
    /\ pc = "accept"
    /\ nSessions < MaxSessions
    /\ waiting' = IF waiting > 0 THEN waiting - 1 ELSE 0
    /\ nSessions' = nSessions + 1
    /\ pc' = "recv_client"
    /\ request_data' = NoRequest /\ method' = None /\ target_url' = None /\ url' = None
    /\ hostname' = None /\ path' = None /\ cache_key' = None
    /\ cached_data' = None /\ response_data' = None /\ forward_msg' = NoRequest
    /\ clientOpen' = TRUE /\ originOpen' = FALSE
    /\ sent' = <<>> /\ connects' = 0 /\ lookups' = 0 /\ stores' = 0
    /\ outcome' = "none" /\ reported' = FALSE
    /\ origin_stream' = <<>> /\ origin_silent' = FALSE /\ origin_sent' = <<>>
    /\ origin_addr' = NoAddr
    /\ cache0' = cache
    /\ UNCHANGED <<cache, flaky, first_response>>

\* the finally clause without client_socket.close()
Finally_leak(o, rep) ==
    /\ pc' = "accept"
    /\ clientOpen' = clientOpen
    /\ outcome' = o
    /\ reported' = rep

\* no except clause: an error leaves handle_client as an exception and
\* ends the accept loop
Finally_crash(o, rep) ==
    /\ pc' = IF rep THEN "stopped" ELSE "accept"
    /\ clientOpen' = FALSE
    /\ outcome' = o
    /\ reported' = rep

\* the finally clause: the session is over and the listener accepts again
Finally(o, rep) ==
    /\ pc' = "accept"
    /\ clientOpen' = FALSE
    /\ outcome' = o
    /\ reported' = rep

\* a parse error answered with an error body before the socket is closed
recv_request_reply(rd, readFault) ==
    /\ pc = "recv_client"
    /\ LET r == ParseRequest(rd) IN
       /\ request_data' = rd
       /\ method' = r.method /\ target_url' = r.target_url /\ url' = r.url
       /\ hostname' = r.hostname /\ path' = r.path /\ cache_key' = r.cache_key
       /\ IF r.err # "none"
          THEN /\ Finally(r.err, TRUE)
               /\ sent' = sent \o <<"x">>
               /\ UNCHANGED <<cached_data, lookups, originOpen, connects>>
          ELSE /\ lookups' = lookups + 1
               /\ cached_data' = get_cached_content(cache, r.cache_key)
               /\ IF truthy(cached_data')
                  THEN /\ sent' = sent \o cached_data'
                       /\ Finally("cache_hit", FALSE)
                       /\ UNCHANGED <<originOpen, connects>>
                  ELSE /\ originOpen' = TRUE
                       /\ connects' = connects + 1
                       /\ pc' = "connecting"
                       /\ UNCHANGED <<sent, clientOpen, outcome, reported>>
    /\ UNCHANGED <<cache, flaky, waiting, nSessions, response_data, forward_msg, stores,
                   origin, cache0, first_response>>

\* handle_client from client_socket.recv to the cache lookup
recv_request(rd, readFault) ==
    /\ pc = "recv_client"
    /\ LET r == ParseRequest(rd) IN
       /\ request_data' = rd
       /\ method' = r.method /\ target_url' = r.target_url /\ url' = r.url
       /\ hostname' = r.hostname /\ path' = r.path /\ cache_key' = r.cache_key
       /\ IF r.err # "none"
          THEN /\ Finally(r.err, TRUE)
               /\ UNCHANGED <<cached_data, sent, lookups, originOpen, connects>>
          ELSE /\ lookups' = lookups + 1
               /\ IF isfile(cache, r.cache_key) /\ readFault
                  THEN \* open(cache_path, "rb") raises
                       /\ Finally("cache_read_error", TRUE)
                       /\ UNCHANGED <<cached_data, sent, originOpen, connects>>
                  ELSE /\ cached_data' = get_cached_content(cache, r.cache_key)
                       /\ IF truthy(cached_data')
                          THEN /\ sent' = sent \o cached_data'
                               /\ Finally("cache_hit", FALSE)
                               /\ UNCHANGED <<originOpen, connects>>
                          ELSE /\ originOpen' = TRUE
                               /\ connects' = connects + 1
                               /\ pc' = "connecting"
                               /\ UNCHANGED <<sent, clientOpen, outcome, reported>>
    /\ UNCHANGED <<cache, flaky, waiting, nSessions, response_data, forward_msg, stores,
                   origin, cache0, first_response>>

\* a failed connect is tried a second time
connect_fails_retry(kind) ==
    /\ pc = "connecting"
    /\ origin_addr' = <<hostname, 80>>
    /\ IF connects < 2
       THEN /\ connects' = connects + 1
            /\ UNCHANGED <<pc, clientOpen, originOpen, outcome, reported>>
       ELSE /\ originOpen' = FALSE
            /\ pc' = "accept"
            /\ clientOpen' = FALSE
            /\ outcome' = kind
            /\ reported' = TRUE
            /\ UNCHANGED connects
    /\ UNCHANGED <<cache, flaky, waiting, nSessions, request_data, parsed, cached_data,
                   response_data, forward_msg, sent, lookups, stores,
                   origin_stream, origin_silent, origin_sent, cache0,
                   first_response>>

\* server_sock.connect refuses, fails to resolve or times out
connect_fails(kind) ==
    /\ pc = "connecting"
    /\ origin_addr' = <<hostname, 80>>
    /\ originOpen' = FALSE
    /\ Finally(kind, TRUE)
    /\ UNCHANGED <<cache, flaky, waiting, nSessions, request_data, parsed, cached_data,
                   response_data, forward_msg, sent, connects, lookups, stores,
                   origin_stream, origin_silent, origin_sent, cache0,
                   first_response>>

\* server_sock.connect succeeds and the request is forwarded
connect_ok(silent, resp) ==
    /\ pc = "connecting"
    /\ origin_addr' = <<hostname, 80>>
    /\ forward_msg' = ForwardMsg(path, hostname)
    /\ origin_silent' = silent
    /\ origin_stream' = IF silent THEN <<>> ELSE resp
    /\ origin_sent' = IF silent THEN <<>> ELSE resp
    /\ pc' = "recv_origin"
    /\ UNCHANGED <<cache, flaky, waiting, nSessions, request_data, parsed, cached_data,
                   response_data, clientOpen, originOpen, sent, connects,
                   lookups, stores, outcome, reported, cache0, first_response>>

\* handle_client from server_sock.recv to the end
recv_response(writeFault) ==
    /\ pc = "recv_origin"
    /\ originOpen' = FALSE
    /\ IF origin_silent
       THEN \* recv raises socket.timeout after 10 seconds
            /\ Finally("timeout", TRUE)
            /\ UNCHANGED <<cache, response_data, sent, stores, origin_stream,
                           first_response>>
       ELSE LET data == IF origin_stream = <<>> THEN <<>>
                        ELSE take(Head(origin_stream), ORIGIN_BUFSIZE)
            IN
            /\ response_data' = data
            /\ origin_stream' = IF origin_stream = <<>> THEN <<>>
                                ELSE Tail(origin_stream)
            /\ IF is_empty(data)
               THEN /\ Finally("empty_response", TRUE)
                    /\ UNCHANGED <<cache, sent, stores, first_response>>
               ELSE /\ stores' = stores + 1
                    /\ IF cache_content_raises(cache_key, writeFault)
                       THEN /\ Finally("cache_write_error", TRUE)
                            /\ UNCHANGED <<cache, sent, first_response>>
                       ELSE /\ cache' = cache_content(cache, cache_key, data)
                            /\ sent' = sent \o data
                            /\ first_response' =
                                 IF target_url \in DOMAIN first_response
                                 THEN first_response
                                 ELSE [u \in DOMAIN first_response \cup {target_url} |->
                                         IF u = target_url THEN sent'
                                         ELSE first_response[u]]
                            /\ Finally("relayed", FALSE)
    /\ UNCHANGED <<flaky, waiting, nSessions, request_data, parsed, cached_data,
                   forward_msg, connects, lookups, origin_silent, origin_sent,
                   origin_addr, cache0>>

Next ==
    \/ accept
    \/ \E rd \in Requests, f \in Faults : recv_request(rd, f)
    \/ \E kind \in {"connect_error", "timeout"} : connect_fails(kind)
    \/ \E silent \in BOOLEAN, resp \in Responses : connect_ok(silent, resp)
    \/ \E f \in Faults : recv_response(f)

Spec == Init /\ [][Next]_vars

\* a client connects while the listener is busy or idle: the connection
\* waits in the listen queue until proxy_sock.accept() returns it
client_connects ==
    /\ waiting < BACKLOG
    /\ waiting + nSessions < MaxSessions
    /\ waiting' = waiting + 1
    /\ UNCHANGED <<pc, cache, flaky, nSessions, session, first_response>>

NextBacklog == Next \/ client_connects

SpecBacklog == Init /\ [][NextBacklog]_vars

SpecFaults == InitFaults /\ [][Next]_vars

TypeOK ==
    /\ pc \in {"accept", "recv_client", "connecting", "recv_origin"}
    /\ nSessions \in 0..MaxSessions
    /\ clientOpen \in BOOLEAN /\ originOpen \in BOOLEAN

\* one session on every URL of ParseUrls: the state is the one accept leaves,
\* on an empty cache or after a first session that fetched http://a
InitParse ==
    /\ pc = "recv_client"
    /\ flaky = FALSE
    /\ waiting = 0
    /\ cache \in ParseCaches
    /\ cache0 = cache
    /\ nSessions = IF DOMAIN cache = {} THEN 1 ELSE 2
    /\ first_response = IF DOMAIN cache = {} THEN <<>>
                        ELSE [u \in {HTTP_PREFIX \o <<"a">>} |-> <<"x">>]
    /\ request_data = NoRequest /\ method = None /\ target_url = None /\ url = None
    /\ hostname = None /\ path = None /\ cache_key = None
    /\ cached_data = None /\ response_data = None /\ forward_msg = NoRequest
    /\ clientOpen = TRUE /\ originOpen = FALSE
    /\ sent = <<>> /\ connects = 0 /\ lookups = 0 /\ stores = 0
    /\ outcome = "none" /\ reported = FALSE
    /\ origin_stream = <<>> /\ origin_silent = FALSE /\ origin_sent = <<>>
    /\ origin_addr = NoAddr

NextParse ==
    \/ \E rd \in ParseRequests : recv_request(rd, FALSE)
    \/ connect_fails("connect_error")
    \/ connect_ok(FALSE, << <<"x">> >>)
    \/ recv_response(FALSE)

SpecParse == InitParse /\ [][NextParse]_vars

\* the timeout set by settimeout(10) bounds connect and recv on the origin
OriginStep ==
    \/ \E kind \in {"connect_error", "timeout"} : connect_fails(kind)
    \/ \E silent \in BOOLEAN, resp \in Responses : connect_ok(silent, resp)
    \/ \E f \in Faults : recv_response(f)

SpecLive == Init /\ [][Next]_vars /\ WF_vars(OriginStep)

\* ------------------------------------------------------------ properties
SessionOver == pc = "accept" /\ outcome # "none"

HasRequestLine ==
    /\ request_data # NoRequest
    /\ Len(request_data) >= 1
    /\ Len(request_data[1]) >= 2

RawMethod == request_data[1][1]
RawUrl    == request_data[1][2]

IsGetAnyCase(m) ==
    /\ Len(m) = 3
    /\ m[1] \in {"G", "g"} /\ m[2] \in {"E", "e"} /\ m[3] \in {"T", "t"}

\* C1: when the lookup returns cached bytes, exactly those bytes are sent to
\* the client and the session ends with no origin socket, no connect call.
C1_HitServedFromCache ==
    (lookups = 1 /\ cached_data # None) =>
        /\ cache_key \in DOMAIN cache0
        /\ cached_data = cache0[cache_key]
        /\ sent = cached_data
        /\ pc = "accept"
        /\ ~clientOpen
        /\ connects = 0
        /\ ~originOpen
        /\ origin_addr = NoAddr

C1_Witness ==
    /\ pc = "accept" /\ lookups = 1 /\ cached_data # None
    /\ sent = <<"x">> /\ outcome = "cache_hit"

C3_Claim ==
    (SessionOver /\ response_data # None /\ response_data # <<>>) =>
        /\ cache_key \in DOMAIN cache
        /\ cache[cache_key] = response_data
        /\ sent = response_data
        /\ response_data = Head(origin_sent)

\* C4 (as stated): the bytes cached and relayed are the concatenation of
\* every read the origin delivered before closing.
C4_Claim ==
    (SessionOver /\ outcome = "relayed") =>
        /\ sent = concat(origin_sent)
        /\ cache[cache_key] = concat(origin_sent)

\* C5: a request line whose method is GET in any letter case passes the
\* method check; any other method ends the session with no connect call, no
\* cache lookup or store and nothing sent to the client.
C5_MethodCheck ==
    (pc # "recv_client" /\ HasRequestLine) =>
        IF IsGetAnyCase(RawMethod)
        THEN outcome # "unsupported_method"
        ELSE /\ pc = "accept"
             /\ outcome = "unsupported_method"
             /\ connects = 0 /\ origin_addr = NoAddr /\ ~originOpen
             /\ lookups = 0 /\ stores = 0 /\ cache = cache0
             /\ sent = <<>>

C5_Witness ==
    /\ SessionOver /\ HasRequestLine
    /\ RawMethod = CONNECT
    /\ outcome = "unsupported_method"

IsHttpsUrl(u) == Len(u) >= 8 /\ \A i \in 1..8 : u[i] = HTTPS_PREFIX[i]

IsBarePath(u) == Len(u) >= 1 /\ u[1] = "/"

\* C6: a GET request whose URL begins with https:// or with "/" ends the
\* session with no origin socket or connect call and no cache read or write.
C6_SchemeAndRelativeRejected ==
    (/\ pc # "recv_client"
     /\ HasRequestLine
     /\ IsGetAnyCase(RawMethod)
     /\ (IsHttpsUrl(RawUrl) \/ IsBarePath(RawUrl)))
    => (/\ pc = "accept"
        /\ ~clientOpen
        /\ connects = 0 /\ origin_addr = NoAddr /\ ~originOpen
        /\ forward_msg = NoRequest
        /\ lookups = 0 /\ stores = 0 /\ cache = cache0
        /\ sent = <<>>)

C6_Witness ==
    /\ SessionOver /\ HasRequestLine
    /\ IsGetAnyCase(RawMethod)
    /\ IsHttpsUrl(RawUrl)
    /\ outcome = "https"

C6_WitnessRelative ==
    /\ SessionOver /\ HasRequestLine
    /\ IsGetAnyCase(RawMethod)
    /\ IsBarePath(RawUrl)
    /\ outcome = "relative_url"

\* C7: every cache entry is non-empty, and an entry is created or changed
\* only with the non-empty bytes just received from the origin by a session
\* whose cache key it is; an empty response leaves the cache as it was.
C7_EntriesAreOriginResponses ==
    /\ [](\A k \in DOMAIN cache : cache[k] # <<>>)
    /\ [][/\ \A k \in DOMAIN cache' :
               (k \notin DOMAIN cache \/ cache'[k] # cache[k]) =>
                   /\ k = cache_key
                   /\ origin_sent # <<>>
                   /\ cache'[k] = Head(origin_sent)
                   /\ cache'[k] # <<>>
          /\ (pc = "recv_origin" /\ ~origin_silent /\ origin_sent = <<>>)
                => cache' = cache]_vars

C7_Witness ==
    /\ SessionOver /\ outcome = "empty_response"
    /\ cache = cache0 /\ cache # <<>>
    /\ cache_key \notin DOMAIN cache

\* C8: whenever a session has ended, whatever its exit path, the client
\* socket is closed and no origin socket is open; an origin socket is open
\* only while the session is connecting or reading from the origin.
C8_SocketsClosed ==
    /\ pc = "accept" => (~clientOpen /\ ~originOpen)
    /\ originOpen => pc \in {"connecting", "recv_origin"}
    /\ pc # "accept" => clientOpen

C8_Witness ==
    /\ SessionOver /\ outcome = "cache_write_error"
    /\ connects = 1 /\ ~clientOpen /\ ~originOpen

FetchFailed == outcome \in {"connect_error", "timeout", "empty_response"}

C10_Claim ==
    (SessionOver /\ stores = 1 /\ cache_key \notin DOMAIN cache) =>
        /\ sent = response_data
        /\ reported


\* C11 (as stated): when reading an existing cache entry raises, the session
\* goes on as after a miss: it connects to the origin.
C11_Claim ==
    (/\ SessionOver
     /\ lookups = 1
     /\ cache_key \in DOMAIN cache0
     /\ cached_data = None)
    => connects = 1


\* C12: a session that ends in an error (parse error, fetch error, timeout,
\* cache read or write error) ends with the listener back at accept, both
\* sockets closed and the cache exactly as it was when the session was
\* accepted, so the next session starts from the state it would have had
\* without the failed one.
C12_ErrorsAreLocal ==
    [][(clientOpen /\ reported')
       => (/\ pc' = "accept"
           /\ ~clientOpen' /\ ~originOpen'
           /\ cache' = cache /\ cache' = cache0
           /\ first_response' = first_response
           /\ nSessions' = nSessions)]_vars

C12_Witness ==
    /\ SessionOver /\ nSessions = 2
    /\ cache0 = <<>>
    /\ outcome = "relayed" /\ sent # <<>>


\* C13: a connection leaves the listen queue only when no session is in
\* progress: the previous client socket and origin socket are closed and the
\* listener is at accept; while a session is in progress accept cannot
\* happen, so a waiting client stays waiting.
C13_OneSessionAtATime ==
    /\ [][(nSessions' # nSessions \/ waiting' < waiting)
          => (pc = "accept" /\ ~clientOpen /\ ~originOpen)]_vars
    /\ [](clientOpen => pc # "accept")
    /\ [](pc # "accept" => ~ENABLED accept)

C13_Witness ==
    /\ waiting > 0
    /\ pc = "recv_origin" /\ origin_silent
    /\ clientOpen /\ nSessions = 1


HasNoCache == Len(request_data) >= 2 /\ request_data[2] = NO_CACHE_HEADER

\* C14 (as stated): a GET request that carries Cache-Control: no-cache skips
\* the cache lookup and contacts the origin although an entry for its key
\* exists.
C14_Claim ==
    (/\ pc # "recv_client"
     /\ HasRequestLine
     /\ IsGetAnyCase(RawMethod)
     /\ HasNoCache
     /\ cache_key \in DOMAIN cache0)
    => (lookups = 0 /\ connects = 1)


\* the URL with a leading http:// removed and every "/" replaced by "_"
ExpectedKey(u) ==
    LET n == Len(HTTP_PREFIX)
        r == IF Len(u) >= n /\ \A i \in 1..n : u[i] = HTTP_PREFIX[i]
             THEN [i \in 1..(Len(u) - n) |-> u[i + n]]
             ELSE u
    IN [i \in 1..Len(r) |-> IF r[i] = "/" THEN "_" ELSE r[i]]

\* C15: whenever handle_client has computed a cache key, the key is the
\* function ExpectedKey of the URL token alone, whatever the letter case of
\* the method, the other header lines and the cache contents left by
\* earlier sessions.
C15_KeyIsFunctionOfUrl ==
    (pc # "recv_client" /\ HasRequestLine /\ cache_key # None)
        => cache_key = ExpectedKey(RawUrl)

C15_Witness ==
    /\ HasRequestLine /\ HasNoCache
    /\ RawMethod = GET_LOWER
    /\ DOMAIN cache0 # {}
    /\ RawUrl = HTTP_PREFIX \o <<"/", "a", "/">>
    /\ cache_key = <<"_", "a", "_">>


SameHostAndPath(u) ==
    LET r == ParseRequest(<< <<GET_UPPER, u, VERSION>> >>)
    IN r.err = "none" /\ r.hostname = hostname /\ r.path = path

\* C16 (as stated): the bytes relayed on a cache hit were fetched from the
\* origin by a request for the same host and path.
C16_Claim ==
    (SessionOver /\ lookups = 1 /\ cached_data # None /\ sent = cached_data)
        => \E u \in DOMAIN first_response :
              SameHostAndPath(u) /\ first_response[u] = sent


CACHE_DIR == <<"c", "a", "c", "h", "e">>

\* os.path.join(CACHE_DIR, cache_key)
cache_path(key) ==
    IF startswith(key, <<"/">>) THEN key ELSE CACHE_DIR \o <<"/">> \o key

\* the path is CACHE_DIR/<name> for a single file name
IsDirectChild(p) ==
    /\ Len(p) > Len(CACHE_DIR) + 1
    /\ \A i \in 1..Len(CACHE_DIR) : p[i] = CACHE_DIR[i]
    /\ p[Len(CACHE_DIR) + 1] = "/"
    /\ LET name == SubSeq(p, Len(CACHE_DIR) + 2, Len(p)) IN
       /\ \A i \in 1..Len(name) : name[i] # "/"
       /\ name # <<".">>
       /\ name # <<".", ".">>

\* C17 (as stated): every path given to get_cached_content and to
\* cache_content names a direct child of the cache directory.
C17_Claim ==
    (lookups >= 1 \/ stores >= 1) => IsDirectChild(cache_path(cache_key))


\* C18 (as stated): an accepted GET has its URL, "http://" stripped, split at
\* the first "/" into host and path ("/" plus the remainder, "/" when there
\* is none); the host carries no port; the origin connection goes to that
\* host on port 80 with request line GET <path> HTTP/1.0 and Host: <host>.
C18_Claim ==
    lookups >= 1 =>
        LET stripped == IF startswith(RawUrl, HTTP_PREFIX)
                        THEN SubSeq(RawUrl, Len(HTTP_PREFIX) + 1, Len(RawUrl))
                        ELSE RawUrl
            k    == find(stripped, "/")
            host == IF k = 0 THEN stripped ELSE SubSeq(stripped, 1, k - 1)
            rest == IF k = 0 THEN <<>> ELSE SubSeq(stripped, k + 1, Len(stripped))
        IN /\ hostname = host
           /\ path = <<"/">> \o rest
           /\ \A i \in 1..Len(hostname) : hostname[i] # ":"
           /\ origin_addr # NoAddr => origin_addr = <<host, 80>>
           /\ forward_msg # NoRequest =>
                /\ forward_msg[1] = <<GET_UPPER, path, <<"HTTP/1.0">> >>
                /\ forward_msg[2] = << <<"Host:">>, host >>


Malformed(rd) == IF rd = <<>> THEN TRUE ELSE Len(rd[1]) < 2

\* C19: a client input that is empty, has no request line or has a first
\* line of fewer than two tokens ends the session at once: the client socket
\* is closed with nothing sent, no cache lookup or store and no origin
\* connection happen; and a closed session is terminal: the only step after
\* it is the listener accepting the next connection.
C19_MalformedClosesSilently ==
    /\ [][(pc = "recv_client" /\ pc' # "recv_client" /\ Malformed(request_data'))
          => (/\ pc' = "accept" /\ ~clientOpen' /\ ~originOpen'
              /\ sent' = <<>> /\ lookups' = 0 /\ stores' = 0 /\ connects' = 0
              /\ origin_addr' = NoAddr /\ forward_msg' = NoRequest
              /\ cache' = cache)]_vars
    /\ [][SessionOver => (pc' = "recv_client" /\ nSessions' = nSessions + 1
                          /\ cache' = cache)]_vars

C19_Witness ==
    /\ SessionOver /\ request_data = << <<GET_UPPER>> >>
    /\ outcome = "invalid_request_line" /\ ~clientOpen /\ sent = <<>>
    /\ nSessions = 2 /\ cache # <<>>


====
